---- MODULE Spec2Model ----
(***************************************************************************)
(* Model of opencensus/plugins/grpc/internal/server_filter.cc: the per-call *)
(* server filter CensusServerCallData.  One call is modelled.  The filter's *)
(* fields live in the record calld; the remaining variables are the         *)
(* collaborators the filter talks to (the transport below it, the call      *)
(* surface above it, the stats sink) and the observations made of them.     *)
(***************************************************************************)
EXTENDS Integers, Sequences, FiniteSets, TLC

VARIABLES
    calld,        \* the fields of CensusServerCallData
    now,          \* the value absl::Now() last returned (nanoseconds)
    destroyed,    \* Destroy has run
    final_info,   \* the grpc_call_final_info Destroy was given
    aborted,      \* a GPR_ASSERT has failed
    n_batches,    \* calls of StartTransportStreamOpBatch so far
    md_requested, \* a batch carrying recv_initial_metadata has been started
    trailing_sent,\* a batch carrying send_trailing_metadata has been started
    pend_md,      \* transport: the pending recv_initial_metadata operation
    pend_msg,     \* transport: the pending recv_message operation
    pend_old,     \* transport: a pending recv_message operation of an
                  \* earlier batch than pend_msg's
    md_batch,     \* the grpc_metadata_batch of the recv_initial_metadata op
    md_event,     \* the initial-metadata event as the transport delivered it
    trailing_md,  \* the outgoing trailing metadata batch (sequence of keys)
    op_in,        \* the batch last passed to StartTransportStreamOpBatch
    next_op,      \* the batch last handed to grpc_call_next_op
    n_forwarded,  \* calls of grpc_call_next_op so far
    fired,        \* the last firing of a substituted callback
    n_fired,      \* firings of substituted callbacks so far
    invoked,      \* the last run of an original (chained) closure
    n_invoked,    \* runs of original closures so far
    records,      \* calls of stats::Record, in order
    call_context, \* what grpc_census_call_set_context attached to the call
    refs,         \* slice references the filter holds (acquired - released)
    auth_refs,    \* auth-context references the filter holds
    span_ended,   \* number of context_.EndSpan() calls
    n_send_ops,   \* batches so far that carried send_message
    n_msg_events, \* message events fired so far
    n_nonnull,    \* message events so far whose payload was non-null
    seen          \* further observations of the filter's steps

vars == << calld, now, destroyed, final_info, aborted, n_batches, md_requested,
           trailing_sent, pend_md, pend_msg, pend_old, md_batch, md_event,
           trailing_md, op_in, next_op, n_forwarded, fired, n_fired, invoked, n_invoked,
           records, call_context, refs, auth_refs, span_ended, n_send_ops,
           n_msg_events, n_nonnull, seen >>

(***************************************************************************)
(* Bounds of the model.                                                     *)
(***************************************************************************)
MaxBatches == 2

(***************************************************************************)
(* Program constants.                                                       *)
(***************************************************************************)
kMaxStatsLen == 2046
kMaxTracingLen == 128
kMaxServerStatsLen == 32
\* 1 / kNumMillisPerNanosecond: the number of nanoseconds in a millisecond
kNanosPerMilli == 1000000

(***************************************************************************)
(* Values.                                                                  *)
(***************************************************************************)
\* grpc_error*: GRPC_ERROR_NONE or an error object
GRPC_ERROR_NONE == "GRPC_ERROR_NONE"
Errors == {GRPC_ERROR_NONE, "GRPC_ERROR_CANCELLED"}

\* grpc_status_code of final_info->final_status
GRPC_STATUS_OK == 0
StatusCodes == {0, 1, 14}

\* grpc_slice: its length and its bytes
Slice(n, b) == [len |-> n, bytes |-> b]
grpc_empty_slice == Slice(0, "")
GRPC_SLICE_IS_EMPTY(s) == s.len = 0
GRPC_SLICE_LENGTH(s) == s.len

\* a callout of grpc_metadata_batch::idx.named: nullptr or an element
NoElem == [present |-> FALSE, value |-> grpc_empty_slice]
Elem(s) == [present |-> TRUE, value |-> s]
GRPC_MDVALUE(e) == e.value

\* grpc_closure*: nullptr, or a function with its argument
Closure(f, a) == [fn |-> f, arg |-> a]
NullClosure == Closure("nullptr", 0)
on_done_recv_initial_metadata_ == Closure("OnDoneRecvInitialMetadataCb", 0)
on_done_recv_message_ == Closure("OnDoneRecvMessageCb", 0)

\* absl::string_view over a slice's bytes
StringView(s) == [data |-> s.bytes, size |-> s.len]
EmptyView == [data |-> "", size |-> 0]

(***************************************************************************)
(* Inputs: what the transport and the call surface may hand to the filter. *)
(***************************************************************************)
\* values of the :path entry (absent, or a method path)
PathElems == {NoElem, Elem(Slice(11, "/svc/Method"))}
\* values of the grpc-trace-bin entry: absent, or a blob of 128 or 129 bytes
TraceElems == {NoElem, Elem(Slice(kMaxTracingLen, "trace128")),
               Elem(Slice(kMaxTracingLen + 1, "trace129"))}
\* values of the grpc-tags-bin entry: absent, or 2046 or 2047 bytes
TagsElems == {NoElem, Elem(Slice(kMaxStatsLen, "tags2046")),
              Elem(Slice(kMaxStatsLen + 1, "tags2047"))}
\* entries of the incoming metadata the filter has no interest in
OtherKeys == {"user-agent", "content-type"}

\* a grpc_metadata_batch of initial metadata
MetadataBatches ==
    [path : PathElems, grpc_trace_bin : TraceElems,
     grpc_tags_bin : TagsElems, other : {OtherKeys}]
\* the initial metadata of a plain call
PlainBatches ==
    {b \in MetadataBatches :
        \/ ~b.path.present /\ ~b.grpc_trace_bin.present
              /\ ~b.grpc_tags_bin.present
        \/ /\ b.path.present
           /\ b.grpc_trace_bin.present
           /\ GRPC_SLICE_LENGTH(GRPC_MDVALUE(b.grpc_trace_bin)) = kMaxTracingLen
           /\ b.grpc_tags_bin.present
           /\ GRPC_SLICE_LENGTH(GRPC_MDVALUE(b.grpc_tags_bin)) = kMaxStatsLen}
EmptyBatch ==
    [path |-> NoElem, grpc_trace_bin |-> NoElem, grpc_tags_bin |-> NoElem,
     other |-> {}]

\* outgoing trailing metadata as the filter receives it
GRPC_MDSTR_GRPC_SERVER_STATS_BIN == "grpc-server-stats-bin"
TrailingBatches ==
    {<<"grpc-status">>, <<"grpc-status", GRPC_MDSTR_GRPC_SERVER_STATS_BIN>>}

\* values absl::Now() can return (nanoseconds since the epoch of the model)
Times == {2500000, 7500000}

\* grpc_call_final_info: the final status and the transport's byte totals
FinalInfos ==
    [final_status : StatusCodes, outgoing_data_bytes : {7},
     incoming_data_bytes : {3}]

\* a grpc::TransportStreamOpBatch as the call surface builds its n-th batch:
\* which operations it carries, and the completion closures of the receive
\* operations (nullptr when the operation is absent)
OpBatch(n, rim, sm, rm, stm) ==
    [id |-> n,
     recv_initial_metadata |-> rim,
     send_message |-> sm,
     recv_message |-> rm,
     send_trailing_metadata |-> stm,
     recv_initial_metadata_ready |->
         IF rim THEN Closure("recv_initial_metadata_ready", n) ELSE NullClosure,
     recv_message_ready |->
         IF rm THEN Closure("recv_message_ready", n) ELSE NullClosure]
NoOp == OpBatch(0, FALSE, FALSE, FALSE, FALSE)

\* a pending receive operation in the transport: the closure the forwarded
\* batch carried (ready), the closure the batch carried when it entered the
\* filter (original), and the batch it belongs to
Pending(act, rdy, orig, n) ==
    [active |-> act, ready |-> rdy, original |-> orig, id |-> n]
NotPending == Pending(FALSE, NullClosure, NullClosure, 0)

\* the initial-metadata event: the error it reported and the batch as the
\* transport filled it
Event(error, b) == [delivered |-> TRUE, error |-> error, batch |-> b]
NoEvent ==
    [delivered |-> FALSE, error |-> GRPC_ERROR_NONE, batch |-> EmptyBatch]

\* nothing observed yet: the encoder has not been called, no append has
\* failed, no trailing metadata batch has come in, path_ has not been
\* released, method_ has not been read after a release, no batch has been
\* handed to the next stage, no batch has carried a receive operation, no
\* pending operation has had its saved closure overwritten, and no chained
\* closure was a superseded one or other than the latest batch's
NothingSeen ==
    [encoded |-> [called |-> FALSE, len |-> 0],
     trailing_in |-> <<>>,
     n_logged |-> 0,
     path_unrefs |-> 0,
     stale_reads |-> 0,
     at_next_op |-> [sent_message_count |-> 0, elapsed_time |-> 0,
                     trailing_md |-> << >>],
     last_rim |-> [id |-> 0, original |-> NullClosure],
     last_rm |-> [id |-> 0, original |-> NullClosure],
     superseded |-> {},
     superseded_runs |-> 0,
     misdirected |-> 0]

NoFinalInfo ==
    [final_status |-> 0, outgoing_data_bytes |-> 0, incoming_data_bytes |-> 0]

(***************************************************************************)
(* Collaborators of the filter that live in other files.                    *)
(***************************************************************************)
\* a decoded wire blob; EmptyBlob is what decoding nothing yields
EmptyBlob == [parsed |-> FALSE, from |-> ""]
ParsedBlob(view) == [parsed |-> TRUE, from |-> view.data]

\* decode(raw_bytes, max_len): an empty or oversized blob decodes to empty
Decode(view, max_len) ==
    IF view.size = 0 \/ view.size > max_len THEN EmptyBlob
    ELSE ParsedBlob(view)

\* the CensusContext GenerateServerContext builds from the two wire blobs,
\* the primary role and the method
GenerateServerContext(tracing, stats, primary_role, method) ==
    [built |-> TRUE,
     trace |-> Decode(tracing, kMaxTracingLen),
     tags |-> Decode(stats, kMaxStatsLen),
     primary_role |-> primary_role,
     method |-> method]
\* a CensusContext no GenerateServerContext has written
NoContext ==
    [built |-> FALSE, trace |-> EmptyBlob, tags |-> EmptyBlob,
     primary_role |-> "", method |-> EmptyView]

\* the bytes ServerStatsSerialize writes: version, field id, 8-byte integer
kRpcServerStatsSize == 10
\* ServerStatsSerialize(elapsed, buf, buf_size): the encoded length, or 0
\* when the encoding does not fit the buffer
ServerStatsSerialize(elapsed_ns, buf_size) ==
    IF buf_size < kRpcServerStatsSize THEN 0 ELSE kRpcServerStatsSize

\* StatusCodeToString(final_status)
StatusCodeToString(code) ==
    CASE code = 0 -> "OK"
      [] code = 1 -> "CANCELLED"
      [] code = 14 -> "UNAVAILABLE"
      [] OTHER -> "UNKNOWN"

\* GetOutgoingDataSize / GetIncomingDataSize of the final-info record
GetOutgoingDataSize(info) == info.outgoing_data_bytes
GetIncomingDataSize(info) == info.incoming_data_bytes

\* a double, kept exact as a fraction
Double(n, d) == [num |-> n, den |-> d]
\* static_cast<double>(n)
ToDouble(n) == Double(n, 1)
\* absl::ToDoubleMilliseconds(d), d in nanoseconds
ToDoubleMilliseconds(d) == Double(d, kNanosPerMilli)
\* absl::ToInt64Nanoseconds(d)
ToInt64Nanoseconds(d) == d

\* the characters a string_view denotes (a view is empty or covers its data)
ViewString(v) == IF v.size = 0 THEN "" ELSE v.data

\* grpc_metadata_batch_add_tail(batch, storage, elem): a second element of a
\* callout key is refused with an error and the batch is left as it was
AddTailFails(batch, key) == \E i \in 1..Len(batch) : batch[i] = key
grpc_metadata_batch_add_tail(batch, key) ==
    IF AddTailFails(batch, key) THEN batch ELSE Append(batch, key)

\* grpc_slice_ref_internal / grpc_slice_unref_internal change the count of a
\* slice that has one; the empty slice has none
RefDelta(s) == IF GRPC_SLICE_IS_EMPTY(s) THEN 0 ELSE 1

\* the fields of a freshly constructed CensusServerCallData
ConstructedCallData ==
    [start_time_ |-> 0,
     elapsed_time_ |-> 0,
     recv_initial_metadata_ |-> 0,
     initial_on_done_recv_initial_metadata_ |-> NullClosure,
     initial_on_done_recv_message_ |-> NullClosure,
     recv_message_ |-> 0,
     recv_message_count_ |-> 0,
     sent_message_count_ |-> 0,
     path_ |-> grpc_empty_slice,
     method_ |-> EmptyView,
     context_ |-> NoContext]

(***************************************************************************)
(* The stats sink and the chained closures, as the filter drives them.      *)
(***************************************************************************)
Measurement(m, v) == [measure |-> m, value |-> v]
Tag(k, v) == [key |-> k, value |-> v]
\* one call of stats::Record(measurements, tags)
Record(ms, ts) == [measurements |-> ms, tags |-> ts]

\* one run of a chained closure: which closure, with which error, and what
\* the closure finds when it runs (the incoming metadata batch, the number of
\* stats::Record calls made, the context attached to the call, the received
\* message count)
Run(c, error, b, nrec, ctx, cnt) ==
    [closure |-> c, error |-> error, md |-> b, n_records |-> nrec,
     call_context |-> ctx, recv_message_count |-> cnt]
NoRun == Run(NullClosure, GRPC_ERROR_NONE, EmptyBatch, 0, NoContext, 0)

\* one firing of a substituted callback: which, with which error, whether
\* the delivered stream was non-null, and the closure the batch carried
\* before the filter replaced it
Firing(cb, error, stream, orig) ==
    [callback |-> cb, error |-> error, stream |-> stream, original |-> orig]
NoFiring == Firing(NullClosure, GRPC_ERROR_NONE, FALSE, NullClosure)

\* FilterInitialMetadata with the tag-set entry left in the batch
FilterInitialMetadata_KeepTags(b, sml) ==
    [sml |->
        [path |->
            IF b.path.present THEN GRPC_MDVALUE(b.path) ELSE sml.path,
         tracing_slice |->
            IF b.grpc_trace_bin.present THEN GRPC_MDVALUE(b.grpc_trace_bin)
            ELSE sml.tracing_slice,
         census_proto |->
            IF b.grpc_tags_bin.present THEN GRPC_MDVALUE(b.grpc_tags_bin)
            ELSE sml.census_proto],
     b |-> [b EXCEPT !.grpc_trace_bin = NoElem]]

(***************************************************************************)
(* FilterInitialMetadata (lines 45-60).                                     *)
(***************************************************************************)
FilterInitialMetadata(b, sml) ==
    [sml |->
        [path |->
            IF b.path.present THEN GRPC_MDVALUE(b.path) ELSE sml.path,
         tracing_slice |->
            IF b.grpc_trace_bin.present THEN GRPC_MDVALUE(b.grpc_trace_bin)
            ELSE sml.tracing_slice,
         census_proto |->
            IF b.grpc_tags_bin.present THEN GRPC_MDVALUE(b.grpc_tags_bin)
            ELSE sml.census_proto],
     b |->
        [b EXCEPT !.grpc_trace_bin = NoElem, !.grpc_tags_bin = NoElem]]

(***************************************************************************)
(* OnDoneRecvMessageCb (lines 64-78).                                       *)
(***************************************************************************)
\* CountRecvMessage without the test of the stream
CountRecvMessage_EveryEvent(count, stream) == count + 1

\* lines 74-76: the counter after a firing whose stream is (non-)null
CountRecvMessage(count, stream) == IF stream THEN count + 1 ELSE count

\* ChainRecvMessage with the chained closure dropped when the event failed
ChainRecvMessage_DropOnError(cd, error) ==
    IF error = GRPC_ERROR_NONE
    THEN << [closure |-> cd.initial_on_done_recv_message_, error |-> error] >>
    ELSE << >>

\* line 77: the closures run by one firing, each with the error it gets
ChainRecvMessage(cd, error) ==
    << [closure |-> cd.initial_on_done_recv_message_, error |-> error] >>

\* line 132: the closures run by one firing, each with the error it gets
ChainRecvInitialMetadata(cd, error) ==
    << [closure |-> cd.initial_on_done_recv_initial_metadata_,
        error |-> error] >>

\* the runs of chained closures a handler makes, applied to the log
RunAll(chain, b, nrec, ctx, cnt) ==
    IF Len(chain) = 0 THEN invoked
    ELSE Run(chain[Len(chain)].closure, chain[Len(chain)].error,
             b, nrec, ctx, cnt)

\* lines 74-77: GRPC_CLOSURE_RUN is the last statement of the callback, so
\* the chained closure finds the call as the statements before it left it
ChainedAfterCount(before, after) == after

\* nonnull: whether *recv_message_ is a stream when the callback reads it
OnDoneRecvMessageCb(error, nonnull) ==
    LET count == CountRecvMessage(calld.recv_message_count_, nonnull)
        chain == ChainRecvMessage(calld, error)
        at == ChainedAfterCount(
                  [recv_message_count |-> calld.recv_message_count_],
                  [recv_message_count |-> count])
    IN  IF \/ calld.recv_message_ = 0
           \/ \E i \in 1..Len(chain) : chain[i].closure = NullClosure
        THEN \* a null pointer is dereferenced, or a null closure is run
             /\ aborted' = TRUE
             /\ UNCHANGED << calld, invoked, n_invoked >>
        ELSE /\ calld' = [calld EXCEPT !.recv_message_count_ = count]
             /\ invoked' = RunAll(chain, md_batch, Len(records),
                                  call_context, at.recv_message_count)
             /\ n_invoked' = n_invoked + Len(chain)
             /\ UNCHANGED aborted

(***************************************************************************)
(* OnDoneRecvInitialMetadataCb (lines 80-133).                              *)
(***************************************************************************)
\* MethodView with the test of the length inverted
MethodView_NoLength(path_, sml_path) ==
    [data |-> IF GRPC_SLICE_IS_EMPTY(path_) THEN "" ELSE path_.bytes,
     size |-> IF GRPC_SLICE_IS_EMPTY(sml_path) THEN GRPC_SLICE_LENGTH(sml_path)
              ELSE 0]

\* lines 95-101: the string_view method_ over path_
MethodView(path_, sml_path) ==
    [data |-> IF GRPC_SLICE_IS_EMPTY(path_) THEN "" ELSE path_.bytes,
     size |-> IF GRPC_SLICE_IS_EMPTY(sml_path) THEN 0
              ELSE GRPC_SLICE_LENGTH(sml_path)]

\* BlobView with the length clamped to the tracing ceiling
BlobView_Clamped(slice) ==
    [data |-> IF GRPC_SLICE_IS_EMPTY(slice) THEN "" ELSE slice.bytes,
     size |-> IF GRPC_SLICE_LENGTH(slice) > kMaxTracingLen
              THEN kMaxTracingLen ELSE GRPC_SLICE_LENGTH(slice)]

\* lines 102-116: the string_view handed to GenerateServerContext for a blob
BlobView(slice) ==
    [data |-> IF GRPC_SLICE_IS_EMPTY(slice) THEN "" ELSE slice.bytes,
     size |-> IF GRPC_SLICE_IS_EMPTY(slice) THEN 0
              ELSE GRPC_SLICE_LENGTH(slice)]

\* StartedRecords with the record left out for a call without a path
StartedRecords_SkipEmptyMethod(method_) ==
    IF method_.size = 0 THEN << >>
    ELSE << Record(<< Measurement("RpcServerStartedCount", 1) >>,
                   << Tag("kMethodTagKey", ViewString(method_)) >>) >>

\* StartedRecords with the message counters emitted along with the start
StartedRecords_WithCounts(method_) ==
    << Record(<< Measurement("RpcServerStartedCount", 1),
                 Measurement("RpcServerRequestCount", 0),
                 Measurement("RpcServerResponseCount", 0) >>,
              << Tag("kMethodTagKey", ViewString(method_)) >>) >>

\* lines 122-123: the measurements recorded for a successful event
StartedRecords(method_) ==
    << Record(<< Measurement("RpcServerStartedCount", 1) >>,
              << Tag("kMethodTagKey", ViewString(method_)) >>) >>

\* lines 48, 51, 56 and 94: the references the callback takes on the value
\* of each element, FilterInitialMetadata one on each element present and
\* line 94 a second one on the path
AcquiredInCallback(sml, path_) ==
    [path |-> RefDelta(sml.path) + RefDelta(path_),
     tracing_slice |-> RefDelta(sml.tracing_slice),
     census_proto |-> RefDelta(sml.census_proto)]

\* ReleasedInCallback without the release of the tags
ReleasedInCallback_KeepTags(sml) ==
    [path |-> RefDelta(sml.path),
     tracing_slice |-> RefDelta(sml.tracing_slice),
     census_proto |-> 0]

\* lines 125-127: the references the callback gives back before it returns
ReleasedInCallback(sml) ==
    [path |-> RefDelta(sml.path),
     tracing_slice |-> RefDelta(sml.tracing_slice),
     census_proto |-> RefDelta(sml.census_proto)]

\* lines 87-129: what a firing without error observes of batch b; the
\* result holds the new fields, the batch as left behind, the records made,
\* whether the context is attached to the call and the change of held
\* references
ObserveSuccess(cd, b) ==
    LET f == FilterInitialMetadata(b,
                 [path |-> grpc_empty_slice,
                  tracing_slice |-> grpc_empty_slice,
                  census_proto |-> grpc_empty_slice])
        sml == f.sml
        path_ == sml.path
        method_ == MethodView(path_, sml.path)
        context_ == GenerateServerContext(BlobView(sml.tracing_slice),
                                          BlobView(sml.census_proto),
                                          "", method_)
    IN  [calld |-> [cd EXCEPT !.path_ = path_, !.method_ = method_,
                              !.context_ = context_],
         b |-> f.b,
         records |-> StartedRecords(method_),
         attach |-> TRUE,
         refs |-> [k \in {"path", "tracing_slice", "census_proto"} |->
                      AcquiredInCallback(sml, path_)[k]
                      - ReleasedInCallback(sml)[k]]]

\* ObserveInitialMetadata without the test of the error
ObserveInitialMetadata_IgnoreError(cd, error, b) == ObserveSuccess(cd, b)

\* lines 86-130: the observation is made only when the event has no error
ObserveInitialMetadata(cd, error, b) ==
    IF error = GRPC_ERROR_NONE THEN ObserveSuccess(cd, b)
    ELSE [calld |-> cd, b |-> b, records |-> << >>, attach |-> FALSE,
          refs |-> [path |-> 0, tracing_slice |-> 0, census_proto |-> 0]]

\* ChainedAfterObservation with the closure run before the observation
ChainedAfterObservation_First(before, after) == before

\* lines 118-132: GRPC_CLOSURE_RUN is the last statement of the callback, so
\* the chained closure finds the batch, the records and the call's context
\* as the statements before it left them
ChainedAfterObservation(before, after) == after

\* b: the contents of the batch recv_initial_metadata_ points to
OnDoneRecvInitialMetadataCb(error, b) ==
    LET o == ObserveInitialMetadata(calld, error, b)
        chain == ChainRecvInitialMetadata(o.calld, error)
        ctx == IF o.attach THEN o.calld.context_ ELSE call_context
        at == ChainedAfterObservation(
                  [md |-> b, n_records |-> Len(records),
                   call_context |-> call_context],
                  [md |-> o.b, n_records |-> Len(records \o o.records),
                   call_context |-> ctx])
    IN  IF \/ error = GRPC_ERROR_NONE /\ calld.recv_initial_metadata_ = 0
           \/ \E i \in 1..Len(chain) : chain[i].closure = NullClosure
        THEN \* GPR_ASSERT(initial_metadata != nullptr) fails, or a null
             \* closure is run
             /\ aborted' = TRUE
             /\ md_batch' = b
             /\ UNCHANGED << calld, records, call_context, refs, invoked,
                             n_invoked >>
        ELSE /\ calld' = o.calld
             /\ md_batch' = o.b
             /\ records' = records \o o.records
             /\ call_context' = ctx
             /\ refs' = [k \in DOMAIN refs |-> refs[k] + o.refs[k]]
             /\ invoked' = RunAll(chain, at.md, at.n_records,
                                  at.call_context,
                                  o.calld.recv_message_count_)
             /\ n_invoked' = n_invoked + Len(chain)
             /\ UNCHANGED aborted

(***************************************************************************)
(* StartTransportStreamOpBatch (lines 135-171).                             *)
(***************************************************************************)
\* SubstituteRecvInitialMetadata without the pointer to the batch saved
SubstituteRecvInitialMetadata_NoPointer(cd, op) ==
    IF op.recv_initial_metadata
    THEN [calld |-> [cd EXCEPT
                        !.initial_on_done_recv_initial_metadata_ =
                            op.recv_initial_metadata_ready],
          op |-> [op EXCEPT !.recv_initial_metadata_ready =
                                on_done_recv_initial_metadata_]]
    ELSE [calld |-> cd, op |-> op]

\* lines 137-142: the fields and the batch after the substitution of the
\* initial-metadata callback
SubstituteRecvInitialMetadata(cd, op) ==
    IF op.recv_initial_metadata
    THEN [calld |-> [cd EXCEPT
                        !.recv_initial_metadata_ = op.id,
                        !.initial_on_done_recv_initial_metadata_ =
                            op.recv_initial_metadata_ready],
          op |-> [op EXCEPT !.recv_initial_metadata_ready =
                                on_done_recv_initial_metadata_]]
    ELSE [calld |-> cd, op |-> op]

\* CountSendMessage without the test of the operation
CountSendMessage_EveryBatch(count, op) == count + 1

\* lines 143-145: the sent counter after a batch
CountSendMessage(count, op) ==
    IF op.send_message THEN count + 1 ELSE count

\* SubstituteRecvMessage with the saved closure kept once it is set
SubstituteRecvMessage_KeepFirst(cd, op) ==
    IF op.recv_message
    THEN [calld |-> [cd EXCEPT
                        !.recv_message_ = op.id,
                        !.initial_on_done_recv_message_ =
                            IF @ = NullClosure THEN op.recv_message_ready
                            ELSE @],
          op |-> [op EXCEPT !.recv_message_ready = on_done_recv_message_]]
    ELSE [calld |-> cd, op |-> op]

\* lines 146-151: the fields and the batch after the substitution of the
\* message callback
SubstituteRecvMessage(cd, op) ==
    IF op.recv_message
    THEN [calld |-> [cd EXCEPT
                        !.recv_message_ = op.id,
                        !.initial_on_done_recv_message_ =
                            op.recv_message_ready],
          op |-> [op EXCEPT !.recv_message_ready = on_done_recv_message_]]
    ELSE [calld |-> cd, op |-> op]

\* ElapsedTime without the test of the operation
ElapsedTime_EveryBatch(cd, op, t) == t - cd.start_time_

\* line 155: elapsed_time_ after a batch, t being the value of absl::Now()
ElapsedTime(cd, op, t) ==
    IF op.send_trailing_metadata THEN t - cd.start_time_
    ELSE cd.elapsed_time_

\* what ServerStatsSerialize may return: zero, or the size of the encoding
EncoderResults == {0, kRpcServerStatsSize}

\* lines 157-159: the length ServerStatsSerialize returns for the elapsed
\* time, given the buffer of kMaxServerStatsLen bytes
EncodedLen(elapsed_time_) ==
    ServerStatsSerialize(ToInt64Nanoseconds(elapsed_time_),
                         kMaxServerStatsLen)

\* AppendIfEncoded without the test of the length
AppendIfEncoded_Unconditional(len, tmd) ==
    grpc_metadata_batch_add_tail(tmd, GRPC_MDSTR_GRPC_SERVER_STATS_BIN)

\* lines 160-167: the trailing metadata batch after the append that is made
\* when the encoded length is not zero
AppendIfEncoded(len, tmd) ==
    IF len > 0
    THEN grpc_metadata_batch_add_tail(tmd, GRPC_MDSTR_GRPC_SERVER_STATS_BIN)
    ELSE tmd

\* GRPC_LOG_IF_ERROR with the error treated as an assertion failure
GRPC_LOG_IF_ERROR_Fatal(failed) == [logged |-> failed, abort |-> failed]

\* line 161: GRPC_LOG_IF_ERROR logs the error of a failed append and goes on
GRPC_LOG_IF_ERROR(failed) == [logged |-> failed, abort |-> FALSE]

\* NextOpCalls with a return before the forward for a batch that carries
\* none of the observed operations
NextOpCalls_SkipUnobserved(op) ==
    IF \/ op.recv_initial_metadata \/ op.send_message
       \/ op.recv_message \/ op.send_trailing_metadata
    THEN 1 ELSE 0

\* line 170: how many times a batch is handed to grpc_call_next_op
NextOpCalls(op) == 1

\* what the transport holds once the forwarded batch fwd (op on entry to the
\* filter) has reached it
PendingAfter(pend, carries, rdy, orig, n) ==
    IF carries THEN Pending(TRUE, rdy, orig, n) ELSE pend

\* lines 137-170: grpc_call_next_op is the last statement of the handler, so
\* the next stage finds the batch, the counters, the elapsed time and the
\* trailing metadata as the statements before it left them
ForwardedAfterUpdates(before, after) == after

\* op: the batch; t: the value absl::Now() returns; tmd: the contents of the
\* batch send_trailing_metadata()->batch() of op; len: the length
\* ServerStatsSerialize returns
StartTransportStreamOpBatchWith(op, t, tmd, len) ==
    LET s1 == SubstituteRecvInitialMetadata(calld, op)
        cd2 == [s1.calld EXCEPT !.sent_message_count_ =
                                    CountSendMessage(@, op)]
        s3 == SubstituteRecvMessage(cd2, s1.op)
        cd4 == [s3.calld EXCEPT !.elapsed_time_ = ElapsedTime(s3.calld, op, t)]
        tmd_out == IF op.send_trailing_metadata
                   THEN AppendIfEncoded(len, tmd)
                   ELSE trailing_md
        at == ForwardedAfterUpdates(
                  [op |-> op,
                   sent_message_count |-> calld.sent_message_count_,
                   elapsed_time |-> calld.elapsed_time_,
                   trailing_md |-> IF op.send_trailing_metadata
                                   THEN tmd ELSE trailing_md],
                  [op |-> s3.op,
                   sent_message_count |-> cd4.sent_message_count_,
                   elapsed_time |-> cd4.elapsed_time_,
                   trailing_md |-> tmd_out])
        fwd == at.op
        log == IF op.send_trailing_metadata /\ len > 0
               THEN GRPC_LOG_IF_ERROR(
                        AddTailFails(tmd, GRPC_MDSTR_GRPC_SERVER_STATS_BIN))
               ELSE [logged |-> FALSE, abort |-> FALSE]
        calls == IF log.abort THEN 0 ELSE NextOpCalls(op)
    IN  /\ calld' = cd4
        /\ now' = IF op.send_trailing_metadata THEN t ELSE now
        /\ trailing_md' = tmd_out
        /\ aborted' = log.abort
        /\ op_in' = op
        /\ n_batches' = n_batches + 1
        /\ n_forwarded' = n_forwarded + calls
        /\ next_op' = IF calls > 0 THEN fwd ELSE next_op
        /\ pend_md' = PendingAfter(pend_md,
                          calls > 0 /\ fwd.recv_initial_metadata,
                          fwd.recv_initial_metadata_ready,
                          op.recv_initial_metadata_ready, op.id)
        /\ pend_msg' = PendingAfter(pend_msg,
                          calls > 0 /\ fwd.recv_message,
                          fwd.recv_message_ready,
                          op.recv_message_ready, op.id)
        /\ pend_old' = IF calls > 0 /\ fwd.recv_message /\ pend_msg.active
                       THEN pend_msg ELSE pend_old
        /\ md_requested' = (md_requested \/ op.recv_initial_metadata)
        /\ trailing_sent' = (trailing_sent \/ op.send_trailing_metadata)
        /\ n_send_ops' = n_send_ops + (IF op.send_message THEN 1 ELSE 0)
        /\ seen' = [seen EXCEPT
              !.encoded = IF op.send_trailing_metadata
                          THEN [called |-> TRUE, len |-> len] ELSE @,
              !.trailing_in = IF op.send_trailing_metadata THEN tmd ELSE @,
              !.n_logged = @ + (IF log.logged THEN 1 ELSE 0),
              !.last_rim = IF op.recv_initial_metadata
                           THEN [id |-> op.id,
                                 original |-> op.recv_initial_metadata_ready]
                           ELSE @,
              !.last_rm = IF op.recv_message
                          THEN [id |-> op.id,
                                original |-> op.recv_message_ready]
                          ELSE @,
              !.superseded = IF op.recv_message /\ pend_msg.active
                             THEN @ \cup {pend_msg.original} ELSE @,
              !.at_next_op = IF calls > 0
                             THEN [sent_message_count |->
                                       at.sent_message_count,
                                   elapsed_time |-> at.elapsed_time,
                                   trailing_md |-> at.trailing_md]
                             ELSE @]
        /\ UNCHANGED << destroyed, final_info, md_batch, md_event, fired,
                        n_fired, invoked, n_invoked, records, call_context,
                        refs, auth_refs, span_ended, n_msg_events, n_nonnull >>

\* lines 135-171 with the encoder of this repository
StartTransportStreamOpBatch(op, t, tmd) ==
    StartTransportStreamOpBatchWith(op, t, tmd,
                                    EncodedLen(ElapsedTime(calld, op, t)))

(***************************************************************************)
(* Init (lines 173-185) and Destroy (lines 187-208).                        *)
(***************************************************************************)
\* the fields after CensusServerCallData::Init, t being absl::Now()
CallDataInit(t) == [ConstructedCallData EXCEPT !.start_time_ = t]

\* ErrorCount with the test inverted
ErrorCount_Inverted(final_status) ==
    IF final_status = GRPC_STATUS_OK THEN 1 ELSE 0

\* lines 196-197: the value of the error-count measurement
ErrorCount(final_status) == IF final_status = GRPC_STATUS_OK THEN 0 ELSE 1

\* FinalRecords with the method tag left empty
FinalRecords_NoMethod(cd, info) ==
    LET request_size == GetOutgoingDataSize(info)
        response_size == GetIncomingDataSize(info)
        elapsed_time_ms == ToDoubleMilliseconds(cd.elapsed_time_)
    IN  << Record(
              << Measurement("RpcServerErrorCount",
                             ErrorCount(info.final_status)),
                 Measurement("RpcServerRequestBytes", ToDouble(request_size)),
                 Measurement("RpcServerResponseBytes",
                             ToDouble(response_size)),
                 Measurement("RpcServerServerElapsedTime", elapsed_time_ms),
                 Measurement("RpcServerRequestCount", cd.sent_message_count_),
                 Measurement("RpcServerFinishedCount", 1),
                 Measurement("RpcServerResponseCount",
                             cd.recv_message_count_) >>,
              << Tag("kMethodTagKey", ""),
                 Tag("kStatusTagKey",
                     StatusCodeToString(info.final_status)) >>) >>

\* lines 195-205: the batch of measurements Destroy records
FinalRecords(cd, info) ==
    LET request_size == GetOutgoingDataSize(info)
        response_size == GetIncomingDataSize(info)
        elapsed_time_ms == ToDoubleMilliseconds(cd.elapsed_time_)
    IN  << Record(
              << Measurement("RpcServerErrorCount",
                             ErrorCount(info.final_status)),
                 Measurement("RpcServerRequestBytes", ToDouble(request_size)),
                 Measurement("RpcServerResponseBytes",
                             ToDouble(response_size)),
                 Measurement("RpcServerServerElapsedTime", elapsed_time_ms),
                 Measurement("RpcServerRequestCount", cd.sent_message_count_),
                 Measurement("RpcServerFinishedCount", 1),
                 Measurement("RpcServerResponseCount",
                             cd.recv_message_count_) >>,
              << Tag("kMethodTagKey", ViewString(cd.method_)),
                 Tag("kStatusTagKey",
                     StatusCodeToString(info.final_status)) >>) >>

\* DestroySteps with path_ released before the record is made
DestroySteps_UnrefFirst ==
    << "grpc_auth_context_release", "grpc_slice_unref_internal",
       "stats::Record", "EndSpan" >>

\* lines 194, 195, 206 and 207: the calls Destroy makes, in its order
DestroySteps ==
    << "grpc_auth_context_release", "stats::Record",
       "grpc_slice_unref_internal", "EndSpan" >>

\* one call of Destroy applied to st, the references, records and
\* observations so far; the record reads method_, a view into path_
DestroyStep(step, st, cd, info) ==
    CASE step = "grpc_auth_context_release" ->
            [st EXCEPT !.auth_refs = @ - 1]
      [] step = "stats::Record" ->
            [st EXCEPT !.records = @ \o FinalRecords(cd, info),
                       !.stale_reads = @ +
                           (IF st.path_unrefs > 0
                               /\ ~GRPC_SLICE_IS_EMPTY(cd.path_)
                            THEN 1 ELSE 0)]
      [] step = "grpc_slice_unref_internal" ->
            [st EXCEPT !.path_refs = @ - RefDelta(cd.path_),
                       !.path_unrefs = @ + 1]
      [] step = "EndSpan" ->
            [st EXCEPT !.span_ended = @ + 1]

RECURSIVE RunSteps(_, _, _, _)
RunSteps(steps, st, cd, info) ==
    IF steps = << >> THEN st
    ELSE RunSteps(Tail(steps), DestroyStep(Head(steps), st, cd, info),
                  cd, info)

Destroy(info) ==
    LET st == RunSteps(DestroySteps,
                       [auth_refs |-> auth_refs, records |-> records,
                        path_refs |-> refs.path, span_ended |-> span_ended,
                        path_unrefs |-> seen.path_unrefs,
                        stale_reads |-> seen.stale_reads],
                       calld, info)
    IN  /\ auth_refs' = st.auth_refs
        /\ records' = st.records
        /\ refs' = [refs EXCEPT !.path = st.path_refs]
        /\ span_ended' = st.span_ended
        /\ seen' = [seen EXCEPT !.path_unrefs = st.path_unrefs,
                                !.stale_reads = st.stale_reads]
        /\ destroyed' = TRUE
        /\ final_info' = info
        /\ UNCHANGED << calld, now, aborted, n_batches, md_requested,
                        trailing_sent, pend_md, pend_msg, pend_old, md_batch,
                        md_event,
                        trailing_md, op_in, next_op, n_forwarded, fired,
                        n_fired, invoked, n_invoked, call_context, n_send_ops,
                        n_msg_events, n_nonnull >>

(***************************************************************************)
(* The call: its initial state and the steps of its surroundings.           *)
(***************************************************************************)
\* values absl::Now() can return when the call is initialized
StartTimes == {2500000}

Init ==
    /\ now \in StartTimes
    /\ calld = CallDataInit(now)
    /\ destroyed = FALSE
    /\ final_info = NoFinalInfo
    /\ aborted = FALSE
    /\ n_batches = 0
    /\ md_requested = FALSE
    /\ trailing_sent = FALSE
    /\ pend_md = NotPending
    /\ pend_msg = NotPending
    /\ pend_old = NotPending
    /\ md_batch = EmptyBatch
    /\ md_event = NoEvent
    /\ trailing_md = << >>
    /\ op_in = NoOp
    /\ next_op = NoOp
    /\ n_forwarded = 0
    /\ fired = NoFiring
    /\ n_fired = 0
    /\ invoked = NoRun
    /\ n_invoked = 0
    /\ records = << >>
    /\ call_context = NoContext
    /\ refs = [path |-> 0, tracing_slice |-> 0, census_proto |-> 0]
    /\ auth_refs = 1
    /\ span_ended = 0
    /\ n_send_ops = 0
    /\ n_msg_events = 0
    /\ n_nonnull = 0
    /\ seen = NothingSeen

Live == ~destroyed /\ ~aborted

\* The call surface starts a batch.  A call receives its initial metadata
\* once, has one receive-message operation in flight at a time, and sends
\* nothing after its trailing metadata.  t is the time on the clock when the
\* batch arrives.
StartBatch ==
    /\ Live
    /\ n_batches < MaxBatches
    /\ \E rim, sm, rm, stm \in BOOLEAN :
          /\ rim => ~md_requested
          /\ rm => ~pend_msg.active
          /\ (sm \/ stm) => ~trailing_sent
          /\ \E t \in {x \in Times : x >= now},
                tmd \in IF stm THEN TrailingBatches ELSE {trailing_md} :
                StartTransportStreamOpBatch(
                    OpBatch(n_batches + 1, rim, sm, rm, stm), t, tmd)

\* StartBatch with an encoder of which only the contract is known: it returns
\* the number of bytes written, or zero when it writes nothing
StartBatchAnyEncoder ==
    /\ Live
    /\ n_batches < MaxBatches
    /\ \E rim, sm, rm, stm \in BOOLEAN :
          /\ rim => ~md_requested
          /\ rm => ~pend_msg.active
          /\ (sm \/ stm) => ~trailing_sent
          /\ \E t \in {x \in Times : x >= now},
                tmd \in IF stm THEN TrailingBatches ELSE {trailing_md},
                len \in EncoderResults :
                StartTransportStreamOpBatchWith(
                    OpBatch(n_batches + 1, rim, sm, rm, stm), t, tmd, len)

\* StartBatch for a call surface that starts a receive-message operation
\* while the one of an earlier batch is still in flight
StartBatchOverlap ==
    /\ Live
    /\ n_batches < MaxBatches
    /\ \E rim, sm, rm, stm \in BOOLEAN :
          /\ rim => ~md_requested
          /\ rm => ~pend_old.active
          /\ (sm \/ stm) => ~trailing_sent
          /\ \E t \in {x \in Times : x >= now},
                tmd \in IF stm THEN TrailingBatches ELSE {trailing_md} :
                StartTransportStreamOpBatch(
                    OpBatch(n_batches + 1, rim, sm, rm, stm), t, tmd)

\* The transport completes the pending recv_initial_metadata operation: it
\* fills the batch with one of batches and runs the closure the operation
\* carried.
InitialMetadataEvent(batches) ==
    /\ Live
    /\ pend_md.active
    /\ \E b \in batches, error \in Errors :
          /\ md_event' = Event(error, b)
          /\ pend_md' = NotPending
          /\ IF pend_md.ready = on_done_recv_initial_metadata_
             THEN /\ fired' = Firing(pend_md.ready, error, FALSE,
                                     pend_md.original)
                  /\ n_fired' = n_fired + 1
                  /\ OnDoneRecvInitialMetadataCb(error, b)
             ELSE /\ invoked' = Run(pend_md.ready, error, b, Len(records),
                                    call_context, calld.recv_message_count_)
                  /\ n_invoked' = n_invoked + 1
                  /\ md_batch' = b
                  /\ UNCHANGED << calld, aborted, fired, n_fired, records,
                                  call_context, refs >>
    /\ UNCHANGED << now, destroyed, final_info, n_batches, md_requested,
                    trailing_sent, pend_msg, pend_old, trailing_md, op_in,
                    next_op, n_forwarded,
                    auth_refs, span_ended, n_send_ops, n_msg_events,
                    n_nonnull, seen >>

RecvInitialMetadataReady == InitialMetadataEvent(MetadataBatches)

\* the event with the metadata of a plain call: nothing the filter looks
\* for, or a path and both blobs within their ceilings
RecvPlainInitialMetadataReady == InitialMetadataEvent(PlainBatches)

\* The transport completes the pending recv_message operation p: it stores a
\* stream or nullptr in the operation's slot and runs the closure the
\* operation carried.  Reading through a pointer to another slot yields
\* either.
MessageEvent(p) ==
    /\ \E stream \in BOOLEAN, error \in Errors :
          /\ n_msg_events' = n_msg_events + 1
          /\ n_nonnull' = n_nonnull + (IF stream THEN 1 ELSE 0)
          /\ IF p.ready = on_done_recv_message_
             THEN /\ fired' = Firing(p.ready, error, stream, p.original)
                  /\ n_fired' = n_fired + 1
                  /\ \E nonnull \in IF calld.recv_message_ = p.id
                                    THEN {stream} ELSE BOOLEAN :
                        OnDoneRecvMessageCb(error, nonnull)
                  /\ seen' = [seen EXCEPT
                        !.superseded_runs = @ +
                            (IF ~aborted' /\ invoked'.closure \in seen.superseded
                             THEN 1 ELSE 0),
                        !.misdirected = @ +
                            (IF ~aborted'
                                /\ invoked'.closure # seen.last_rm.original
                             THEN 1 ELSE 0)]
             ELSE /\ invoked' = Run(p.ready, error, md_batch,
                                    Len(records), call_context,
                                    calld.recv_message_count_)
                  /\ n_invoked' = n_invoked + 1
                  /\ UNCHANGED << calld, aborted, fired, n_fired, seen >>
    /\ UNCHANGED << now, destroyed, final_info, n_batches, md_requested,
                    trailing_sent, pend_md, md_batch, md_event, trailing_md,
                    op_in, next_op, n_forwarded, records, call_context, refs,
                    auth_refs, span_ended, n_send_ops >>

RecvMessageReady ==
    /\ Live
    /\ pend_msg.active
    /\ pend_msg' = NotPending
    /\ UNCHANGED pend_old
    /\ MessageEvent(pend_msg)

\* The transport completes the recv_message operation of the earlier batch.
RecvMessageReadyOld ==
    /\ Live
    /\ pend_old.active
    /\ pend_old' = NotPending
    /\ UNCHANGED pend_msg
    /\ MessageEvent(pend_old)

\* The call stack is destroyed once no operation of the call is pending.
DestroyWith(infos) ==
    /\ Live
    /\ ~pend_md.active
    /\ ~pend_msg.active
    /\ ~pend_old.active
    /\ \E info \in infos : Destroy(info)

DestroyCall == DestroyWith(FinalInfos)

\* the destruction of a call that ended with the status OK
DestroyOkCall ==
    DestroyWith({info \in FinalInfos : info.final_status = GRPC_STATUS_OK})

Next ==
    \/ StartBatch
    \/ RecvInitialMetadataReady
    \/ RecvMessageReady
    \/ DestroyCall

Spec == Init /\ [][Next]_vars

NextAnyEncoder ==
    \/ StartBatchAnyEncoder
    \/ RecvPlainInitialMetadataReady
    \/ RecvMessageReady
    \/ DestroyOkCall

SpecAnyEncoder == Init /\ [][NextAnyEncoder]_vars

NextOverlap ==
    \/ StartBatchOverlap
    \/ RecvPlainInitialMetadataReady
    \/ RecvMessageReady
    \/ RecvMessageReadyOld
    \/ DestroyOkCall

SpecOverlap == Init /\ [][NextOverlap]_vars

(***************************************************************************)
(* Properties.                                                              *)
(***************************************************************************)
IsStarted(r) ==
    \E i \in 1..Len(r.measurements) :
        r.measurements[i].measure = "RpcServerStartedCount"
IsFinal(r) ==
    \E i \in 1..Len(r.measurements) :
        r.measurements[i].measure = "RpcServerFinishedCount"
Started == {i \in 1..Len(records) : IsStarted(records[i])}
Finals == {i \in 1..Len(records) : IsFinal(records[i])}
\* the initial-metadata event has been delivered without / with an error
MdSucceeded == md_event.delivered /\ md_event.error = GRPC_ERROR_NONE
MdFailed == md_event.delivered /\ md_event.error # GRPC_ERROR_NONE
\* the last substituted callback that fired is the initial-metadata one
LastFiredIsMd == n_fired > 0 /\ fired.callback = on_done_recv_initial_metadata_
LastFiredIsMsg == n_fired > 0 /\ fired.callback = on_done_recv_message_

\* C1: every firing of a substituted callback (initial metadata or message,
\* with or without an error) runs the closure the filter replaced exactly
\* once, with the error the firing received.
C1_ChainedOncePerFiring ==
    /\ n_invoked = n_fired
    /\ n_fired > 0 =>
          /\ invoked.closure = fired.original
          /\ invoked.error = fired.error
\* three firings have happened, the last a failed message event
C1_Witness ==
    /\ n_fired >= 3
    /\ LastFiredIsMsg
    /\ fired.error # GRPC_ERROR_NONE
    /\ MdSucceeded

\* C2: every call of StartTransportStreamOpBatch hands the batch to the next
\* stage exactly once, whatever operations the batch carries.
C2_ForwardedOncePerBatch ==
    /\ n_forwarded = n_batches
    /\ next_op.id = op_in.id
    /\ next_op.recv_initial_metadata = op_in.recv_initial_metadata
    /\ next_op.send_message = op_in.send_message
    /\ next_op.recv_message = op_in.recv_message
    /\ next_op.send_trailing_metadata = op_in.send_trailing_metadata
\* a batch carrying all four operations was followed by one carrying none
C2_Witness ==
    /\ n_batches = 2
    /\ md_requested /\ trailing_sent /\ n_send_ops = 1
    /\ ~op_in.recv_initial_metadata /\ ~op_in.send_message
    /\ ~op_in.recv_message /\ ~op_in.send_trailing_metadata

\* C3: a call whose initial-metadata event was delivered without error and
\* that has been destroyed has made exactly one "RPC started" record and
\* exactly one final record, and no other.
C3_OneStartedOneFinal ==
    (destroyed /\ MdSucceeded) =>
        /\ Cardinality(Started) = 1
        /\ Cardinality(Finals) = 1
        /\ Len(records) = 2
\* such a call, destroyed after two batches and two message events
C3_Witness ==
    /\ destroyed /\ MdSucceeded
    /\ n_batches = 2 /\ n_msg_events = 2
    /\ ~md_event.batch.path.present

\* C4: received_message_count equals the number of message events so far
\* whose payload was non-null, whatever the errors of the events.
C4_RecvCountIsNonNullEvents ==
    calld.recv_message_count_ = n_nonnull
\* a failed event with a payload was counted, a null one was not
C4_Witness ==
    /\ n_msg_events = 2 /\ n_nonnull = 1
    /\ LastFiredIsMsg /\ fired.stream /\ fired.error # GRPC_ERROR_NONE
    /\ calld.recv_message_count_ = 1

\* C5: sent_message_count equals the number of batches passed to
\* StartTransportStreamOpBatch so far that carried a send-message operation,
\* and no later event changes it.
C5_SentCountIsSendBatches ==
    calld.sent_message_count_ = n_send_ops
\* of two batches one carried a send-message; events and Destroy followed
C5_Witness ==
    /\ n_batches = 2 /\ n_send_ops = 1
    /\ n_fired >= 2 /\ destroyed

\* C6: when the initial-metadata event reports an error, the batch is left as
\* delivered, call_path and method_name stay empty, no context is built or
\* attached, no "RPC started" record is made, and the chained closure is run
\* with that error.
C6_ErrorSkipsObservation ==
    /\ MdFailed =>
          /\ md_batch = md_event.batch
          /\ calld.path_ = grpc_empty_slice
          /\ calld.method_ = EmptyView
          /\ ~calld.context_.built
          /\ ~call_context.built
          /\ Started = {}
    /\ (MdFailed /\ LastFiredIsMd) =>
          /\ invoked.closure = fired.original
          /\ invoked.error = md_event.error
          /\ invoked.md = md_event.batch
\* a failed event whose batch carries a path and both blobs
C6_Witness ==
    /\ MdFailed /\ LastFiredIsMd
    /\ md_event.batch.path.present
    /\ md_event.batch.grpc_trace_bin.present
    /\ md_event.batch.grpc_tags_bin.present
    /\ n_invoked = n_fired

\* C7: when the chained closure of a successful initial-metadata event runs,
\* the batch holds neither the tracing nor the tag-set entry, and its path
\* entry and its other entries are as delivered.
C7_BlobsRemovedPathKept ==
    (MdSucceeded /\ LastFiredIsMd) =>
        /\ ~invoked.md.grpc_trace_bin.present
        /\ ~invoked.md.grpc_tags_bin.present
        /\ invoked.md.path = md_event.batch.path
        /\ invoked.md.other = md_event.batch.other
\* the delivered batch carried a path and both blobs
C7_Witness ==
    /\ MdSucceeded /\ LastFiredIsMd
    /\ invoked.closure = fired.original
    /\ md_event.batch.path.present
    /\ md_event.batch.grpc_trace_bin.present
    /\ md_event.batch.grpc_tags_bin.present
    /\ md_event.batch.other # {}

\* the value of measure m in record r (r holds m once)
ValueOf(r, m) ==
    LET i == CHOOSE j \in 1..Len(r.measurements) :
                 r.measurements[j].measure = m
    IN  r.measurements[i].value
TagOf(r, k) ==
    LET i == CHOOSE j \in 1..Len(r.tags) : r.tags[j].key = k
    IN  r.tags[i].value
MeasuresOf(r) == {r.measurements[i].measure : i \in 1..Len(r.measurements)}
\* the elapsed time the call has seen: from Init to the batch that carried
\* the trailing metadata
ElapsedSeen == IF trailing_sent THEN now - calld.start_time_ ELSE 0
\* the method the successful initial-metadata event named
MethodSeen ==
    IF MdSucceeded /\ md_event.batch.path.present
    THEN md_event.batch.path.value.bytes ELSE ""

\* C8: the record made at destruction holds exactly the seven measurements:
\* error count 0 for status OK and 1 otherwise, request and response bytes,
\* the elapsed time in milliseconds, request count = batches with a
\* send-message, finished count 1, response count = non-null message events;
\* it is tagged with the method and the string form of the status.
C8_FinalBatchContents ==
    destroyed =>
        LET r == records[Len(records)]
            elapsed == ValueOf(r, "RpcServerServerElapsedTime")
        IN  /\ Len(r.measurements) = 7
            /\ MeasuresOf(r) =
                  {"RpcServerErrorCount", "RpcServerRequestBytes",
                   "RpcServerResponseBytes", "RpcServerServerElapsedTime",
                   "RpcServerRequestCount", "RpcServerFinishedCount",
                   "RpcServerResponseCount"}
            /\ ValueOf(r, "RpcServerErrorCount") =
                  (IF final_info.final_status = 0 THEN 0 ELSE 1)
            /\ ValueOf(r, "RpcServerRequestBytes") =
                  Double(final_info.outgoing_data_bytes, 1)
            /\ ValueOf(r, "RpcServerResponseBytes") =
                  Double(final_info.incoming_data_bytes, 1)
            /\ elapsed = Double(ElapsedSeen, kNanosPerMilli)
            /\ ValueOf(r, "RpcServerRequestCount") = n_send_ops
            /\ ValueOf(r, "RpcServerFinishedCount") = 1
            /\ ValueOf(r, "RpcServerResponseCount") = n_nonnull
            /\ Len(r.tags) = 2
            /\ TagOf(r, "kMethodTagKey") = MethodSeen
            /\ TagOf(r, "kStatusTagKey") =
                  StatusCodeToString(final_info.final_status)
\* a call with a method, a sent and a received message and five
\* milliseconds elapsed ends with a status other than OK
C8_Witness ==
    /\ destroyed
    /\ final_info.final_status # 0
    /\ MethodSeen # ""
    /\ n_send_ops = 1 /\ n_nonnull = 2
    /\ ElapsedSeen = 5 * kNanosPerMilli

\* C9 as stated: nothing is recorded before the call is destroyed.
C9_NothingBeforeDestroy ==
    ~destroyed => Len(records) = 0
\* C9 amended: before the call is destroyed the only record made is the
\* single "RPC started" count of a successful initial-metadata event; the
\* accumulated measurements are recorded at destruction only.
C9_OnlyStartedBeforeDestroy ==
    /\ ~destroyed =>
          /\ Len(records) = (IF MdSucceeded THEN 1 ELSE 0)
          /\ \A i \in 1..Len(records) :
                /\ MeasuresOf(records[i]) = {"RpcServerStartedCount"}
                /\ ValueOf(records[i], "RpcServerStartedCount") = 1
    /\ destroyed => Finals = {Len(records)}
\* the started record is out while messages are still being counted
C9_Witness ==
    /\ ~destroyed /\ Len(records) = 1
    /\ calld.sent_message_count_ > 0 /\ calld.recv_message_count_ > 0

\* the slice a blob is taken for: none when it is longer than its ceiling
Within(elem, max_len) ==
    IF elem.value.len > max_len THEN grpc_empty_slice ELSE elem.value
Oversized(b) ==
    \/ b.grpc_trace_bin.value.len > kMaxTracingLen
    \/ b.grpc_tags_bin.value.len > kMaxStatsLen

C11_MethodNameFollowsPath ==
    /\ ~MdSucceeded =>
          /\ calld.method_ = EmptyView
          /\ ViewString(calld.method_) = ""
    /\ MdSucceeded =>
          /\ calld.method_.size = md_event.batch.path.value.len
          /\ ViewString(calld.method_) =
                (IF md_event.batch.path.present
                 THEN md_event.batch.path.value.bytes ELSE "")
\* the method was taken from the path, and survived a message event, a later
\* batch and the destruction
C11_Witness ==
    /\ MdSucceeded /\ md_event.batch.path.present
    /\ ViewString(calld.method_) = "/svc/Method"
    /\ LastFiredIsMsg /\ n_batches = 2 /\ destroyed

\* C12: elapsed_time_ is written only by a batch that carries
\* send-trailing-metadata, which sets it to the time of that batch less
\* start_time_; a call destroyed without such a batch reports an elapsed time
\* of zero in its final record.
C12_ElapsedSetAtTrailingOnly ==
    /\ ~trailing_sent => calld.elapsed_time_ = 0
    /\ trailing_sent => calld.elapsed_time_ = now - calld.start_time_
    /\ (destroyed /\ ~trailing_sent) =>
          ValueOf(records[Len(records)], "RpcServerServerElapsedTime").num = 0
\* two batches without trailing metadata passed before the destruction
C12_Witness ==
    /\ destroyed /\ ~trailing_sent
    /\ n_batches = 2 /\ n_send_ops = 2 /\ n_msg_events = 2
    /\ ValueOf(records[Len(records)], "RpcServerServerElapsedTime") =
          Double(0, kNanosPerMilli)

\* C13: the server-stats entry is appended to the trailing metadata only when
\* the encoder returned a length that is not zero; when the encoder returns
\* zero the trailing metadata is the batch as it came in, without the entry.
C13_AppendOnlyIfEncoded ==
    /\ ~seen.encoded.called => trailing_md = << >>
    /\ seen.encoded.called =>
          /\ seen.encoded.len = 0 => trailing_md = seen.trailing_in
          /\ trailing_md # seen.trailing_in =>
                /\ seen.encoded.len > 0
                /\ trailing_md = Append(seen.trailing_in,
                                        GRPC_MDSTR_GRPC_SERVER_STATS_BIN)
\* the encoder returned zero for the batch of a call that has since been
\* destroyed, and the batch holds the status alone
C13_Witness ==
    /\ destroyed
    /\ seen.encoded.called
    /\ seen.encoded.len = 0
    /\ seen.trailing_in = << "grpc-status" >>
    /\ trailing_md = << "grpc-status" >>

C15_ReleasedOnceAtDestroy ==
    /\ ~destroyed =>
          /\ auth_refs = 1
          /\ span_ended = 0
          /\ seen.path_unrefs = 0
          /\ refs.path = (IF MdSucceeded /\ md_event.batch.path.present
                          THEN 1 ELSE 0)
    /\ destroyed =>
          /\ auth_refs = 0
          /\ span_ended = 1
          /\ seen.path_unrefs = 1
          /\ refs.path = 0
    /\ refs.tracing_slice = 0
    /\ refs.census_proto = 0
\* a destroyed call whose initial metadata held the path and both blobs
C15_Witness ==
    /\ destroyed
    /\ MdSucceeded
    /\ md_event.batch.path.present
    /\ md_event.batch.grpc_trace_bin.present
    /\ md_event.batch.grpc_tags_bin.present
    /\ n_batches = 2

\* C16: method_ is never read after path_ has been released: Destroy makes
\* its record, which is tagged with method_, before it releases path_, and
\* nothing releases path_ before Destroy.
C16_NoReadAfterRelease ==
    /\ seen.stale_reads = 0
    /\ seen.path_unrefs > 0 => destroyed
    /\ (destroyed /\ MdSucceeded /\ md_event.batch.path.present) =>
          TagOf(records[Len(records)], "kMethodTagKey") =
              md_event.batch.path.value.bytes
\* a destroyed call with a path, the final record tagged with it
C16_Witness ==
    /\ destroyed
    /\ seen.path_unrefs = 1
    /\ refs.path = 0
    /\ ~GRPC_SLICE_IS_EMPTY(calld.path_)
    /\ TagOf(records[Len(records)], "kMethodTagKey") = "/svc/Method"

\* C17: the observation is made before control is handed over: the closure
\* chained on a successful initial-metadata event runs with the "RPC started"
\* record made and the context attached to the call; the closure chained on
\* a message event runs with the count already updated; the next stage gets
\* a batch with the callbacks substituted, the sent count and the elapsed
\* time updated and the server stats appended.
C17_ObservedBeforeHandOver ==
    /\ (LastFiredIsMd /\ fired.error = GRPC_ERROR_NONE) =>
          /\ invoked.n_records = 1
          /\ IsStarted(records[invoked.n_records])
          /\ invoked.call_context = calld.context_
          /\ invoked.call_context # NoContext
    /\ LastFiredIsMsg =>
          /\ invoked.recv_message_count = calld.recv_message_count_
          /\ invoked.recv_message_count = n_nonnull
    /\ n_batches > 0 =>
          /\ seen.at_next_op.sent_message_count = n_send_ops
          /\ seen.at_next_op.elapsed_time = ElapsedSeen
          /\ seen.at_next_op.trailing_md = trailing_md
          /\ next_op.recv_initial_metadata =>
                next_op.recv_initial_metadata_ready =
                    on_done_recv_initial_metadata_
          /\ next_op.recv_message =>
                next_op.recv_message_ready = on_done_recv_message_
\* the last batch carried every operation and had the stats appended, and
\* its initial-metadata event has been delivered without error
C17_Witness ==
    /\ n_batches = 2
    /\ next_op.recv_initial_metadata /\ next_op.recv_message
    /\ next_op.send_message /\ next_op.send_trailing_metadata
    /\ seen.at_next_op.sent_message_count = 2
    /\ seen.at_next_op.elapsed_time > 0
    /\ seen.at_next_op.trailing_md =
          << "grpc-status", "grpc-server-stats-bin" >>
    /\ LastFiredIsMd /\ fired.error = GRPC_ERROR_NONE
    /\ invoked.n_records = 1

\* C18: a batch has its completion closure replaced, and the closure and the
\* pointer saved, only when it carries the receive operation; each batch that
\* carries the operation overwrites what was saved, so the closure chained on
\* a message event is the one of the latest batch with recv_message, and the
\* closure of a batch that was superseded while its operation was in flight
\* is never run.
C18_LatestOriginalIsChained ==
    /\ calld.recv_initial_metadata_ = seen.last_rim.id
    /\ calld.initial_on_done_recv_initial_metadata_ = seen.last_rim.original
    /\ calld.recv_message_ = seen.last_rm.id
    /\ calld.initial_on_done_recv_message_ = seen.last_rm.original
    /\ n_batches > 0 =>
          /\ next_op.recv_initial_metadata_ready =
                (IF op_in.recv_initial_metadata
                 THEN on_done_recv_initial_metadata_
                 ELSE op_in.recv_initial_metadata_ready)
          /\ next_op.recv_message_ready =
                (IF op_in.recv_message THEN on_done_recv_message_
                 ELSE op_in.recv_message_ready)
    /\ seen.misdirected = 0
    /\ seen.superseded_runs = 0
\* the second batch superseded the first while its operation was in flight,
\* both events have fired and the call has been destroyed
C18_Witness ==
    /\ seen.superseded = {Closure("recv_message_ready", 1)}
    /\ seen.last_rm.original = Closure("recv_message_ready", 2)
    /\ n_msg_events = 2
    /\ n_invoked = 2
    /\ invoked.closure = Closure("recv_message_ready", 2)
    /\ destroyed

\* C19: no assertion and no dereference of a substituted callback fails:
\* while an operation with a substituted callback is in flight, the pointer
\* the callback reads and the closure it chains are the ones of the batch
\* that installed the callback, neither of them null, and every closure a
\* substituted callback has run was one.
C19_CallbacksFindTheirFields ==
    /\ ~aborted
    /\ (pend_md.active /\ pend_md.ready = on_done_recv_initial_metadata_) =>
          /\ calld.recv_initial_metadata_ = pend_md.id
          /\ calld.recv_initial_metadata_ # 0
          /\ calld.initial_on_done_recv_initial_metadata_ = pend_md.original
          /\ calld.initial_on_done_recv_initial_metadata_ # NullClosure
    /\ (pend_msg.active /\ pend_msg.ready = on_done_recv_message_) =>
          /\ calld.recv_message_ = pend_msg.id
          /\ calld.recv_message_ # 0
          /\ calld.initial_on_done_recv_message_ = pend_msg.original
          /\ calld.initial_on_done_recv_message_ # NullClosure
    /\ n_fired > 0 => invoked.closure # NullClosure
    /\ LastFiredIsMd => invoked.closure = seen.last_rim.original
\* the initial-metadata callback has fired without error and the message
\* callback after it, with a stream, for operations of two batches
C19_Witness ==
    /\ ~aborted
    /\ MdSucceeded
    /\ LastFiredIsMsg
    /\ fired.error = GRPC_ERROR_NONE
    /\ fired.stream
    /\ n_fired = 2
    /\ calld.recv_initial_metadata_ = 1
    /\ calld.recv_message_ = 2
    /\ invoked.closure = Closure("recv_message_ready", 2)

\* C20: a call makes at most one "RPC started" record and never more of them
\* than final records: none of either before its destruction unless the
\* initial metadata was processed, exactly one final record at destruction;
\* a call whose initial-metadata event failed or never fired makes the final
\* record alone, tagged with the empty method; when both records are made
\* they carry the same method tag.
C20_StartedAtMostFinal ==
    /\ Cardinality(Started) <= 1
    /\ Started # {} => MdSucceeded
    /\ ~destroyed => Finals = {}
    /\ destroyed =>
          /\ Finals = {Len(records)}
          /\ Cardinality(Started) <= Cardinality(Finals)
          /\ ~MdSucceeded =>
                /\ Started = {}
                /\ Len(records) = 1
                /\ TagOf(records[Len(records)], "kMethodTagKey") = ""
          /\ \A i \in Started :
                TagOf(records[i], "kMethodTagKey") =
                    TagOf(records[Len(records)], "kMethodTagKey")
\* a destroyed call whose initial-metadata event reported an error, although
\* the batch held a path, after two batches
C20_Witness ==
    /\ destroyed
    /\ MdFailed
    /\ md_event.batch.path.present
    /\ Started = {}
    /\ Len(records) = 1
    /\ TagOf(records[1], "kMethodTagKey") = ""
    /\ n_batches = 2

====
